---- MODULE Spec2Model ----
(***************************************************************************)
(* Model of muver's two entry points, run_pipeline (pipeline.py) and       *)
(* call_variants (call_variants.py).  The parent process is a program      *)
(* counter over the statements of the entry point; the worker pool of      *)
(* run_pipeline is a set of per-sample tasks that step through the tool    *)
(* calls of process_sams, analyze_depth_distribution and                   *)
(* characterize_repeat_indel_rates, interleaved in any order allowed by    *)
(* the pool size p.  Files are modelled as (name, content) pairs, where    *)
(* the content records the sample the data was derived from.               *)
(***************************************************************************)
EXTENDS Integers, Sequences, FiniteSets, TLC

\* ---------------------------------------------------------------- bounds
\* samples in the manifest, FASTQ lines in the manifest, pool size p
MaxSamples == 2
MaxLines == 3
MaxPool == 2

\* Python's None (the default of next(..., None) and of unset attributes).
None == 0

VARIABLES
    entry,          \* "run_pipeline" or "call_variants"
    inp,            \* the arguments and the pre-existing environment of the run
    pc,             \* statement the parent process executes next
    err,            \* why the run stopped early ("" while it has not)
    indexed,        \* the reference's auxiliary indices exist on disk
    disk,           \* set of <<name, content>>: files that exist
    pool,           \* size of the worker pool, None before Pool(p)
    exp_dir,        \* the experiment directory has been generated
    samples,        \* sequence of Sample records (<<>> before the manifest is read)
    control_sample, \* index of the control Sample, or None
    cur,            \* loop cursor of the parent: [s |-> sample, i |-> fastq index]
    phase,          \* the pool.map in progress, "" when the parent is not in one
    tasks,          \* per task of the current pool.map: status, step, locals, result
    strand_bias_std_values, \* list returned by pool.map(analyze_depth_distribution)
    repeats,        \* in-memory repeat catalog, None before read_repeats
    chrom_sizes,    \* in-memory chromosome sizes, None before they are read
    variants,       \* the VariantList, None before its construction
    outputs,        \* set of output artifacts written: name, writer, source
    h               \* history: what has happened so far in the run

vars == <<entry, inp, pc, err, indexed, disk, pool, exp_dir, samples,
          control_sample, cur, phase, tasks, strand_bias_std_values, repeats,
          chrom_sizes, variants, outputs, h>>

\* ------------------------------------------------------------ file names
\* Names of a sample's intermediate files: sample.generate_intermediate_files
\* names them per sample (and per FASTQ index for the indexed kinds).
IFile(s, kind, i) == <<kind, s, i>>

ReferenceFile == <<"reference_assembly", 0, 0>>

\* '{}.repeats'.format(os.path.splitext(reference_assembly)[0])
RepeatFile == <<"reference.repeats", 0, 0>>

HaplotypeCallerVcf == <<"gatk_output/haplotype_caller_output.vcf", 0, 0>>

HaplotypeCallerLog == <<"logs/haplotype_caller.log", 0, 0>>

\* input_vcf argument of call_variants
InputVcf == <<"input_vcf", 0, 0>>

\* Inputs that every worker task shares.
SharedInputs == {ReferenceFile, RepeatFile, HaplotypeCallerVcf}

Exists(d, name) == \E f \in d : f[1] = name

Content(d, name) == (CHOOSE f \in d : f[1] = name)[2]

Write(d, name, c) == {f \in d : f[1] # name} \cup {<<name, c>>}

RECURSIVE WriteAll(_, _, _)
WriteAll(d, names, c) ==
    IF names = {} THEN d
    ELSE LET n == CHOOSE x \in names : TRUE
         IN  WriteAll(Write(d, n, c), names \ {n}, c)

\* Content tags.  Data derived from sample s carries the tag s; these are the
\* tags of data that is not per-sample.
ReferenceData == 90
CatalogData == 91
CohortData == 92
MixedData == 99
EmptyCatalog == 93

\* ---------------------------------------------------------- output names
\* A file name as its dot-separated parts: '{}.variants.txt'.format(header).
CallVariantsTextOutput == <<"output_header", "variants", "txt">>

CallVariantsVcfOutput == <<"output_header", "variants", "vcf">>

\* os.path.join(experiment_directory, 'output', 'mutations.txt')
PipelineTextOutput == <<"experiment_directory/output/mutations", "txt">>

\* Fault: the VCF path is built with the table's file name.
PipelineVcfOutputSameAsText == <<"experiment_directory/output/mutations", "txt">>
PipelineVcfOutput == <<"experiment_directory/output/mutations", "vcf">>

TextOutput(e) ==
    IF e = "call_variants" THEN CallVariantsTextOutput ELSE PipelineTextOutput

VcfOutput(e) ==
    IF e = "call_variants" THEN CallVariantsVcfOutput ELSE PipelineVcfOutput

EndsWith(name, suffix) ==
    /\ Len(name) >= Len(suffix)
    /\ SubSeq(name, Len(name) - Len(suffix) + 1, Len(name)) = suffix

\* ------------------------------------------------------- statement order
\* The statements of run_pipeline in program order.
\* Fault: the fits are read back only after the VariantList is constructed.
RunPipelineOrderFitsAfterVariantList ==
    <<"check_reference_indices", "create_pool", "prepare", "align",
      "process_sams", "run_haplotype_caller", "analyze_depth_distribution",
      "merge_strand_bias", "read_repeats", "characterize_repeat_indel_rates",
      "variant_list", "read_fits", "write_output_table", "write_output_vcf",
      "clear_temp_file_indices", "write_sample_info_file", "done">>
\* Fault: the haplotype caller is run before the process_sams phase.
RunPipelineOrderCallerBeforeProcessSams ==
    <<"check_reference_indices", "create_pool", "prepare", "align",
      "run_haplotype_caller", "process_sams", "analyze_depth_distribution",
      "merge_strand_bias", "read_repeats", "characterize_repeat_indel_rates",
      "read_fits", "variant_list", "write_output_table", "write_output_vcf",
      "clear_temp_file_indices", "write_sample_info_file", "done">>

\* Fault: the temporary file indices are cleared before the outputs are written.
RunPipelineOrderClearBeforeOutputs ==
    <<"check_reference_indices", "create_pool", "prepare", "align",
      "process_sams", "run_haplotype_caller", "analyze_depth_distribution",
      "merge_strand_bias", "read_repeats", "characterize_repeat_indel_rates",
      "read_fits", "variant_list", "clear_temp_file_indices",
      "write_output_table", "write_output_vcf", "write_sample_info_file",
      "done">>
RunPipelineOrder ==
    <<"check_reference_indices", "create_pool", "prepare", "align",
      "process_sams", "run_haplotype_caller", "analyze_depth_distribution",
      "merge_strand_bias", "read_repeats", "characterize_repeat_indel_rates",
      "read_fits", "variant_list", "write_output_table", "write_output_vcf",
      "clear_temp_file_indices", "write_sample_info_file", "done">>

\* The statements of call_variants in program order.
CallVariantsOrder ==
    <<"cv_read_samples", "cv_create_reference_indices", "cv_repeat_file",
      "cv_chrom_sizes", "cv_variant_list", "cv_write_output_table",
      "cv_write_output_vcf", "done">>

Order(e) == IF e = "call_variants" THEN CallVariantsOrder ELSE RunPipelineOrder

Position(e, stmt) == CHOOSE k \in 1..Len(Order(e)) : Order(e)[k] = stmt

\* The statement that follows stmt.
After(e, stmt) == Order(e)[Position(e, stmt) + 1]

\* The parent has executed stmt (it is past it in program order).
Past(stmt) ==
    /\ pc \in {Order(entry)[k] : k \in 1..Len(Order(entry))}
    /\ Position(entry, pc) > Position(entry, stmt)

\* ------------------------------------------------------------------ inputs
Entries == {"run_pipeline", "call_variants"}

Phases == {"process_sams", "analyze_depth_distribution",
           "characterize_repeat_indel_rates"}

\* Name of the k-th sample of the manifest.
SampleName(k) == k

\* The control_sample argument: the name of the last sample of the manifest,
\* or a name that no line of the manifest carries.
ControlNames(n) == {SampleName(n), SampleName(n) + 1}

\* A Sample as read_samples_from_text constructs it from the manifest: its
\* identity, and the derived statistical parameters still unset.
NewSample(k) ==
    [sample_name |-> SampleName(k),
     strand_bias_std |-> None,
     repeat_indel_fits_dict |-> None,
     depth_mean |-> None,
     depth_std |-> None,
     temp_cleared |-> FALSE]

\* next((x for x in samples if x.sample_name == control_sample), None)
ControlLookup(ss, name) ==
    IF \E k \in 1..Len(ss) : ss[k].sample_name = name
    THEN CHOOSE k \in 1..Len(ss) :
             /\ ss[k].sample_name = name
             /\ \A j \in 1..(k - 1) : ss[j].sample_name # name
    ELSE None

\* Sum of f[1..n].
RECURSIVE Sum(_, _)
Sum(f, n) == IF n = 0 THEN 0 ELSE f[n] + Sum(f, n - 1)

NoHistory ==
    [failed |-> "", finished |-> {}, vl_count |-> 0, repeat_needed |-> FALSE,
     hc_calls |-> 0, hc_bams |-> <<>>, merged |-> <<>>, info_writes |-> 0]

Init ==
    \E e \in Entries, n \in 1..MaxSamples, p \in 1..MaxPool,
       ix \in BOOLEAN, rp \in BOOLEAN, cs \in BOOLEAN :
      \E ns \in [1..n -> 1..MaxLines], c \in ControlNames(n) :
        /\ Sum(ns, n) <= MaxLines
        \* call_variants takes no pool size and no FASTQ files; run_pipeline
        \* takes no chromosome-size file.
        /\ e = "call_variants" => p = 1 /\ \A k \in 1..n : ns[k] = 1
        /\ e = "run_pipeline" => ~cs
        /\ entry = e
        /\ inp = [n |-> n, p |-> p, nsams |-> ns, control |-> c,
                  indexed |-> ix, repeat_file |-> rp, chrom_sizes_file |-> cs]
        /\ pc = Order(e)[1]
        /\ err = ""
        /\ indexed = ix
        /\ disk = {<<ReferenceFile, ReferenceData>>}
                  \cup (IF rp THEN {<<RepeatFile, CatalogData>>} ELSE {})
                  \cup (IF e = "call_variants"
                        THEN {<<InputVcf, CohortData>>} ELSE {})
        /\ pool = None
        /\ exp_dir = FALSE
        /\ samples = <<>>
        /\ control_sample = None
        /\ cur = [s |-> 1, i |-> 1]
        /\ phase = ""
        /\ tasks = <<>>
        /\ strand_bias_std_values = <<>>
        /\ repeats = None
        /\ chrom_sizes = None
        /\ variants = None
        /\ outputs = {}
        /\ h = NoHistory

\* ------------------------------------------------------- run_pipeline head
\* reference.check_reference_indices(reference_assembly)
\* Fault: the check never reports missing indices.
CheckReferenceIndicesAlwaysTrue == TRUE
CheckReferenceIndices == indexed

\* pipeline.py 143-146: the reference must already be indexed.
RP_CheckReferenceIndices ==
    /\ entry = "run_pipeline"
    /\ pc = "check_reference_indices"
    /\ IF ~CheckReferenceIndices
       THEN /\ pc' = "exited"
            /\ err' = "Reference assembly not indexed. Run muver index_reference."
       ELSE /\ pc' = After(entry, pc)
            /\ err' = err
    /\ UNCHANGED <<entry, inp, indexed, disk, pool, exp_dir, samples,
                   control_sample, cur, phase, tasks, strand_bias_std_values,
                   repeats, chrom_sizes, variants, outputs, h>>

\* pipeline.py 148: pool = Pool(p)
RP_CreatePool ==
    /\ entry = "run_pipeline"
    /\ pc = "create_pool"
    /\ pool' = inp.p
    /\ pc' = After(entry, pc)
    /\ UNCHANGED <<entry, inp, err, indexed, disk, exp_dir, samples,
                   control_sample, cur, phase, tasks, strand_bias_std_values,
                   repeats, chrom_sizes, variants, outputs, h>>

\* pipeline.py 150-159: experiment directory, manifest, control lookup,
\* intermediate file names.
RP_Prepare ==
    /\ entry = "run_pipeline"
    /\ pc = "prepare"
    /\ exp_dir' = TRUE
    /\ samples' = [k \in 1..inp.n |-> NewSample(k)]
    /\ control_sample' = ControlLookup(samples', inp.control)
    /\ cur' = [s |-> 1, i |-> 1]
    /\ pc' = After(entry, pc)
    /\ UNCHANGED <<entry, inp, err, indexed, disk, pool, phase, tasks,
                   strand_bias_std_values, repeats, chrom_sizes, variants,
                   outputs, h>>

\* pipeline.py 162-170: one bowtie2.align per FASTQ entry of every sample, in
\* manifest order, writing sample._sams[i].
RP_Align ==
    /\ entry = "run_pipeline"
    /\ pc = "align"
    /\ disk' = Write(disk, IFile(cur.s, "_sams", cur.i), cur.s)
    /\ IF cur.i < inp.nsams[cur.s]
       THEN /\ cur' = [cur EXCEPT !.i = cur.i + 1]
            /\ pc' = pc
       ELSE IF cur.s < Len(samples)
       THEN /\ cur' = [s |-> cur.s + 1, i |-> 1]
            /\ pc' = pc
       ELSE /\ cur' = [s |-> 1, i |-> 1]
            /\ pc' = After(entry, pc)
    /\ UNCHANGED <<entry, inp, err, indexed, pool, exp_dir, samples,
                   control_sample, phase, tasks, strand_bias_std_values,
                   repeats, chrom_sizes, variants, outputs, h>>

\* ------------------------------------------------------------ worker tasks
\* Argument tuples zipped for pool.map.  intermediate_files is the dictionary
\* s.get_intermediate_file_names() of one sample, identified by that sample.
\* Fault: every task is handed the first sample's file names.
ProcessSamsArgsOfFirstSample(k) ==
    [index |-> None, sample_name |-> samples[k].sample_name,
     intermediate_files |-> 1, repeats |-> None]
ProcessSamsArgs(k) ==
    [index |-> None, sample_name |-> samples[k].sample_name,
     intermediate_files |-> k, repeats |-> None]

\* Fault: every task is handed the index of the first sample.
AnalyzeDepthArgsIndexOfFirst(k) ==
    [index |-> 1, sample_name |-> None,
     intermediate_files |-> k, repeats |-> None]
AnalyzeDepthArgs(k) ==
    [index |-> k, sample_name |-> None,
     intermediate_files |-> k, repeats |-> None]

CharacterizeArgs(k) ==
    [index |-> None, sample_name |-> None,
     intermediate_files |-> k, repeats |-> repeats]

Args(ph, k) ==
    CASE ph = "process_sams" -> ProcessSamsArgs(k)
      [] ph = "analyze_depth_distribution" -> AnalyzeDepthArgs(k)
      [] ph = "characterize_repeat_indel_rates" -> CharacterizeArgs(k)

\* Tool calls per SAM index in process_sams.
StepsPerSam == 7

\* The k-th tool call of process_sams(args): what it reads and writes.
ProcessSamsStep(a, k) ==
    LET o == a.intermediate_files
        n == inp.nsams[o]
        i == ((k - 1) \div StepsPerSam) + 1
        j == ((k - 1) % StepsPerSam) + 1
        F(kind) == IFile(o, kind, i)
    IN  IF k = StepsPerSam * n + 1
        THEN [op |-> "merge_bams",
              reads |-> {IFile(o, "_fixed_mates_bams", x) : x \in 1..n},
              writes |-> {IFile(o, "merged_bam", 0)}]
        ELSE CASE j = 1 -> [op |-> "remove_diff_chr_pairs",
                            reads |-> {F("_sams")},
                            writes |-> {F("_same_chr_sams")}]
               [] j = 2 -> [op |-> "mapq_filter",
                            reads |-> {F("_same_chr_sams")},
                            writes |-> {F("_mapq_filtered_sams")}]
               [] j = 3 -> [op |-> "add_read_groups",
                            reads |-> {F("_mapq_filtered_sams")},
                            writes |-> {F("_read_group_bams")}]
               [] j = 4 -> [op |-> "deduplicate",
                            reads |-> {F("_read_group_bams")},
                            writes |-> {F("_deduplicated_bams"),
                                        F("_deduplication_metrics")}]
               [] j = 5 -> [op |-> "realigner_target_creator",
                            reads |-> {ReferenceFile, F("_deduplicated_bams")},
                            writes |-> {F("_interval_files")}]
               [] j = 6 -> [op |-> "indel_realigner",
                            reads |-> {ReferenceFile, F("_deduplicated_bams"),
                                       F("_interval_files")},
                            writes |-> {F("realignment_logs"),
                                        F("_realigned_bams")}]
               [] j = 7 -> [op |-> "fix_mate_information",
                            reads |-> {F("_realigned_bams")},
                            writes |-> {F("_fixed_mates_bams")}]

\* The k-th tool call of analyze_depth_distribution(args).
AnalyzeDepthStep(a, k) ==
    LET o == a.intermediate_files
        F(kind) == IFile(o, kind, 0)
    IN  CASE k = 1 -> [op |-> "run_mpileup",
                       reads |-> {F("merged_bam"), ReferenceFile},
                       writes |-> {F("_mpileup_out")}]
          [] k = 2 -> [op |-> "calculate_bias_distribution_mpileup",
                       reads |-> {F("_mpileup_out"), ReferenceFile},
                       writes |-> {F("strand_bias_distribution")}]
          [] k = 3 -> [op |-> "get_mpileup_depths",
                       reads |-> {F("merged_bam"), ReferenceFile},
                       writes |-> {F("depth_bedgraph")}]
          [] k = 4 -> [op |-> "calculate_depth_distribution_mpileup",
                       reads |-> {F("_mpileup_out")},
                       writes |-> {F("depth_distribution")}]
          [] k = 5 -> [op |-> "filter_regions_by_depth_mpileup",
                       reads |-> {F("_mpileup_out")},
                       writes |-> {F("filtered_sites")}]

\* The single call of characterize_repeat_indel_rates(args).
CharacterizeStep(a, k) ==
    LET o == a.intermediate_files
    IN  [op |-> "fit_repeat_indel_rates",
         reads |-> {IFile(o, "merged_bam", 0)},
         writes |-> {IFile(o, "repeat_indel_fits", 0)}]

\* Fault: process_sams deduplicates before it adds the read groups.
StepDeduplicateBeforeReadGroups(ph, a, k) ==
    LET j == ((k - 1) % StepsPerSam) + 1
        last == StepsPerSam * inp.nsams[a.intermediate_files] + 1
    IN  CASE ph = "process_sams" ->
                 ProcessSamsStep(a, IF k = last THEN k
                                    ELSE IF j = 3 THEN k + 1
                                    ELSE IF j = 4 THEN k - 1 ELSE k)
          [] ph = "analyze_depth_distribution" -> AnalyzeDepthStep(a, k)
          [] ph = "characterize_repeat_indel_rates" -> CharacterizeStep(a, k)
\* Fault: analyze_depth_distribution filters the regions before it fits the
\* depth distribution.
StepFilterBeforeDepthFit(ph, a, k) ==
    CASE ph = "process_sams" -> ProcessSamsStep(a, k)
      [] ph = "analyze_depth_distribution" ->
             AnalyzeDepthStep(a, IF k = 4 THEN 5 ELSE IF k = 5 THEN 4 ELSE k)
      [] ph = "characterize_repeat_indel_rates" -> CharacterizeStep(a, k)
Step(ph, a, k) ==
    CASE ph = "process_sams" -> ProcessSamsStep(a, k)
      [] ph = "analyze_depth_distribution" -> AnalyzeDepthStep(a, k)
      [] ph = "characterize_repeat_indel_rates" -> CharacterizeStep(a, k)

\* Number of tool calls of a task.
NumSteps(ph, a) ==
    CASE ph = "process_sams" ->
             StepsPerSam * inp.nsams[a.intermediate_files] + 1
      [] ph = "analyze_depth_distribution" -> 5
      [] ph = "characterize_repeat_indel_rates" -> 1

\* Every file a task writes during its life.
WriteSet(ph, a) == UNION {Step(ph, a, k).writes : k \in 1..NumSteps(ph, a)}

\* Content of what a tool derives from its (non-reference) input files.
Derived(d, reads) ==
    LET cs == {Content(d, r) : r \in reads \ {ReferenceFile}}
    IN  IF Cardinality(cs) = 1 THEN CHOOSE c \in cs : TRUE ELSE MixedData

\* Fitted values as a function of the data they are fitted to.
BiasStd(c) == 100 + c

DepthMean(c) == 200 + c

DepthStd(c) == 300 + c

\* read_fits(sample.repeat_indel_fits): the table held by the fits file.
FitsTable(c) == 400 + c

ReadFits(d, name) ==
    IF Exists(d, name) THEN FitsTable(Content(d, name)) ELSE None

\* A task as dispatched; writes is the set of files its tool calls will write.
NewTask(ph, k) ==
    [fn |-> ph, status |-> "queued", step |-> 0, args |-> Args(ph, k),
     writes |-> WriteSet(ph, Args(ph, k)),
     std |-> None, mu |-> None, sigma |-> None, filter |-> <<>>, ret |-> <<>>]

\* The value a task returns: analyze_depth_distribution returns
\* (index, strand_bias_std), the other two return nothing.
\* Fault: the returned index counts completions instead of being the passed index.
ReturnValueByCompletionRank(ph, t) ==
    IF ph = "analyze_depth_distribution"
    THEN <<Cardinality({k \in DOMAIN tasks : tasks[k].status = "done"}) + 1,
           t.std>>
    ELSE <<>>
ReturnValue(ph, t) ==
    IF ph = "analyze_depth_distribution" THEN <<t.args.index, t.std>> ELSE <<>>

Running == {k \in DOMAIN tasks : tasks[k].status = "running"}

\* pool.map returns once every task has completed.
\* Faults: returning at the first completed task; treating a failed task as
\* completed.
MapCompleteOnFirstDone(ts) == \E k \in DOMAIN ts : ts[k].status = "done"
MapCompleteSkippingFailed(ts) ==
    \A k \in DOMAIN ts : ts[k].status \in {"done", "failed"}
\* Fault: returning once every task has been handed to a worker.
MapCompleteWhenNoneQueued(ts) == \A k \in DOMAIN ts : ts[k].status # "queued"
MapComplete(ts) == \A k \in DOMAIN ts : ts[k].status = "done"

\* pool.map re-raises a task's exception in the parent.
MapFailed(ts) == \E k \in DOMAIN ts : ts[k].status = "failed"

\* ---------------------------------------------------------------- pool.map
\* pipeline.py 173-177, 201-206, 215-219: the parent zips one argument tuple
\* per sample and blocks in pool.map.
PoolMapCall ==
    /\ entry = "run_pipeline"
    /\ pc \in Phases
    /\ phase = ""
    /\ phase' = pc
    /\ tasks' = [k \in 1..Len(samples) |-> NewTask(pc, k)]
    /\ UNCHANGED <<entry, inp, pc, err, indexed, disk, pool, exp_dir, samples,
                   control_sample, cur, strand_bias_std_values, repeats,
                   chrom_sizes, variants, outputs, h>>

\* A free worker of the pool takes the next queued task, in list order.
TaskStart(k) ==
    /\ pc = phase
    /\ k \in DOMAIN tasks
    /\ tasks[k].status = "queued"
    /\ \A j \in 1..(k - 1) : tasks[j].status # "queued"
    /\ Cardinality(Running) < pool
    /\ tasks' = [tasks EXCEPT ![k].status = "running"]
    /\ UNCHANGED <<entry, inp, pc, err, indexed, disk, pool, exp_dir, samples,
                   control_sample, cur, phase, strand_bias_std_values, repeats,
                   chrom_sizes, variants, outputs, h>>

\* A running task makes its next tool call; a tool whose input file does not
\* exist raises.  The last call is followed by the task's return.
TaskStep(k) ==
    /\ pc = phase
    /\ k \in Running
    /\ LET t == tasks[k]
           n == t.step + 1
           st == Step(phase, t.args, n)
           c == Derived(disk, st.reads)
           last == (n = NumSteps(phase, t.args))
           t1 == [t EXCEPT
                    !.step = n,
                    !.std = IF st.op = "calculate_bias_distribution_mpileup"
                            THEN BiasStd(c) ELSE @,
                    !.mu = IF st.op = "calculate_depth_distribution_mpileup"
                           THEN DepthMean(c) ELSE @,
                    !.sigma = IF st.op = "calculate_depth_distribution_mpileup"
                              THEN DepthStd(c) ELSE @,
                    !.filter = IF st.op = "filter_regions_by_depth_mpileup"
                               THEN <<t.mu, t.sigma>> ELSE @]
       IN  IF \A r \in st.reads : Exists(disk, r)
           THEN /\ disk' = WriteAll(disk, st.writes, c)
                /\ tasks' = [tasks EXCEPT ![k] =
                               IF last
                               THEN [t1 EXCEPT !.status = "done",
                                               !.ret = ReturnValue(phase, t1)]
                               ELSE t1]
                /\ h' = IF last
                        THEN [h EXCEPT !.finished = @ \cup {<<phase, k>>}]
                        ELSE h
           ELSE /\ disk' = disk
                /\ tasks' = [tasks EXCEPT ![k].status = "failed"]
                /\ h' = [h EXCEPT !.failed = phase]
    /\ UNCHANGED <<entry, inp, pc, err, indexed, pool, exp_dir, samples,
                   control_sample, cur, phase, strand_bias_std_values, repeats,
                   chrom_sizes, variants, outputs>>

\* A tool call of a running task raises (e.g. malformed alignment input).
\* pool.map keeps the first exception only, so a later failure changes
\* nothing for the parent and only the first one is modelled.
TaskRaise(k) ==
    /\ pc = phase
    /\ k \in Running
    /\ ~MapFailed(tasks)
    /\ tasks' = [tasks EXCEPT ![k].status = "failed"]
    /\ h' = [h EXCEPT !.failed = phase]
    /\ UNCHANGED <<entry, inp, pc, err, indexed, disk, pool, exp_dir, samples,
                   control_sample, cur, phase, strand_bias_std_values, repeats,
                   chrom_sizes, variants, outputs>>

\* pool.map returns the tasks' results in list order.
PoolMapReturn ==
    /\ phase # ""
    /\ pc = phase
    /\ MapComplete(tasks)
    /\ strand_bias_std_values' =
           IF phase = "analyze_depth_distribution"
           THEN [k \in DOMAIN tasks |-> tasks[k].ret]
           ELSE strand_bias_std_values
    /\ phase' = ""
    /\ cur' = [s |-> 1, i |-> 1]
    /\ pc' = After(entry, pc)
    /\ UNCHANGED <<entry, inp, err, indexed, disk, pool, exp_dir, samples,
                   control_sample, tasks, repeats, chrom_sizes, variants,
                   outputs, h>>

\* pool.map re-raises a failed task's exception; run_pipeline does not catch
\* it.  Depending on the interpreter the exception surfaces as soon as the
\* task has failed or once the remaining tasks have finished; both are allowed.
PoolMapRaise ==
    /\ phase # ""
    /\ pc = phase
    /\ MapFailed(tasks)
    /\ pc' = "aborted"
    /\ err' = "WorkerTaskFailure"
    /\ UNCHANGED <<entry, inp, indexed, disk, pool, exp_dir, samples,
                   control_sample, cur, phase, tasks, strand_bias_std_values,
                   repeats, chrom_sizes, variants, outputs, h>>

\* ------------------------------------------------------- run_pipeline tail
\* pipeline.py 190: bams = [s.merged_bam for s in samples]
MergedBams == [k \in 1..Len(samples) |-> IFile(k, "merged_bam", 0)]

\* pipeline.py 179-199: one HaplotypeCaller run over the merged BAMs of all
\* samples, then the chromosome sizes are read from the reference.
RP_RunHaplotypeCaller ==
    /\ entry = "run_pipeline"
    /\ pc = "run_haplotype_caller"
    /\ disk' = WriteAll(disk, {HaplotypeCallerVcf, HaplotypeCallerLog}, CohortData)
    /\ chrom_sizes' = ReferenceData
    /\ h' = [h EXCEPT !.hc_calls = @ + 1, !.hc_bams = MergedBams]
    /\ pc' = After(entry, pc)
    /\ UNCHANGED <<entry, inp, err, indexed, pool, exp_dir, samples,
                   control_sample, cur, phase, tasks, strand_bias_std_values,
                   repeats, variants, outputs>>

\* pipeline.py 207-208: one iteration of the merge loop,
\* samples[index].strand_bias_std = strand_bias_std.
RP_MergeStrandBias ==
    /\ entry = "run_pipeline"
    /\ pc = "merge_strand_bias"
    /\ LET r == strand_bias_std_values[cur.s]
       IN  IF Len(r) = 2 /\ r[1] \in 1..Len(samples)
           THEN /\ samples' = [samples EXCEPT ![r[1]].strand_bias_std = r[2]]
                /\ h' = [h EXCEPT !.merged = Append(@, r[1])]
                /\ err' = err
                /\ IF cur.s < Len(strand_bias_std_values)
                   THEN /\ cur' = [cur EXCEPT !.s = cur.s + 1]
                        /\ pc' = pc
                   ELSE /\ cur' = [s |-> 1, i |-> 1]
                        /\ pc' = After(entry, pc)
           ELSE \* unpacking a result that is no (index, value) pair, or an
                \* index outside the list, raises
                /\ samples' = samples
                /\ h' = h
                /\ err' = "TypeError"
                /\ cur' = cur
                /\ pc' = "aborted"
    /\ UNCHANGED <<entry, inp, indexed, disk, pool, exp_dir,
                   control_sample, phase, tasks, strand_bias_std_values,
                   repeats, chrom_sizes, variants, outputs>>

\* pipeline.py 211-213: the repeat catalog is read from the cache file.
RP_ReadRepeats ==
    /\ entry = "run_pipeline"
    /\ pc = "read_repeats"
    /\ Exists(disk, RepeatFile)
    /\ repeats' = Content(disk, RepeatFile)
    /\ h' = [h EXCEPT !.repeat_needed = TRUE]
    /\ pc' = After(entry, pc)
    /\ UNCHANGED <<entry, inp, err, indexed, disk, pool, exp_dir, samples,
                   control_sample, cur, phase, tasks, strand_bias_std_values,
                   chrom_sizes, variants, outputs>>

\* pipeline.py 213 with the cache file absent: run_pipeline never calls
\* create_repeat_file, so read_repeats is handed a file that does not exist.
\* It either raises or yields an empty catalog; in neither case is the file
\* built.
RP_ReadRepeatsMissing ==
    /\ entry = "run_pipeline"
    /\ pc = "read_repeats"
    /\ ~Exists(disk, RepeatFile)
    /\ h' = [h EXCEPT !.repeat_needed = TRUE]
    /\ \E raises \in BOOLEAN :
         IF raises
         THEN /\ pc' = "aborted"
              /\ err' = "IOError"
              /\ repeats' = repeats
         ELSE /\ pc' = After(entry, pc)
              /\ err' = err
              /\ repeats' = EmptyCatalog
    /\ UNCHANGED <<entry, inp, indexed, disk, pool, exp_dir, samples,
                   control_sample, cur, phase, tasks, strand_bias_std_values,
                   chrom_sizes, variants, outputs>>

\* pipeline.py 220-221: one iteration of
\* sample.repeat_indel_fits_dict = read_fits(sample.repeat_indel_fits).
RP_ReadFits ==
    /\ entry = "run_pipeline"
    /\ pc = "read_fits"
    /\ samples' = [samples EXCEPT ![cur.s].repeat_indel_fits_dict =
                     ReadFits(disk, IFile(cur.s, "repeat_indel_fits", 0))]
    /\ IF cur.s < Len(samples)
       THEN /\ cur' = [cur EXCEPT !.s = cur.s + 1]
            /\ pc' = pc
       ELSE /\ cur' = [s |-> 1, i |-> 1]
            /\ pc' = After(entry, pc)
    /\ UNCHANGED <<entry, inp, err, indexed, disk, pool, exp_dir,
                   control_sample, phase, tasks, strand_bias_std_values,
                   repeats, chrom_sizes, variants, outputs, h>>

\* VariantList(vcf, samples, excluded_regions, repeat_file, control_sample,
\* chrom_sizes): the aggregation; it keeps the samples it was handed.
NewVariantList(vcf) ==
    [id |-> h.vl_count + 1, vcf |-> vcf, samples |-> samples,
     repeat_file |-> RepeatFile, control_sample |-> control_sample,
     chrom_sizes |-> chrom_sizes]

\* pipeline.py 223-225
RP_VariantList ==
    /\ entry = "run_pipeline"
    /\ pc = "variant_list"
    /\ variants' = NewVariantList(HaplotypeCallerVcf)
    /\ h' = [h EXCEPT !.vl_count = @ + 1]
    /\ pc' = After(entry, pc)
    /\ UNCHANGED <<entry, inp, err, indexed, disk, pool, exp_dir, samples,
                   control_sample, cur, phase, tasks, strand_bias_std_values,
                   repeats, chrom_sizes, outputs>>

\* An output artifact written by the VariantList v under the given name.
Artifact(name, kind, v) ==
    [name |-> name, kind |-> kind, writer |-> "VariantList", source |-> v.id,
     data |-> <<>>]

WriteArtifact(outs, a) == {o \in outs : o.name # a.name} \cup {a}

\* pipeline.py 237: variants.write_output_table(text_output)
RP_WriteOutputTable ==
    /\ entry = "run_pipeline"
    /\ pc = "write_output_table"
    /\ outputs' = WriteArtifact(outputs, Artifact(TextOutput(entry), "table", variants))
    /\ pc' = After(entry, pc)
    /\ UNCHANGED <<entry, inp, err, indexed, disk, pool, exp_dir, samples,
                   control_sample, cur, phase, tasks, strand_bias_std_values,
                   repeats, chrom_sizes, variants, h>>

\* pipeline.py 238: variants.write_output_vcf(vcf_output)
RP_WriteOutputVcf ==
    /\ entry = "run_pipeline"
    /\ pc = "write_output_vcf"
    /\ outputs' = WriteArtifact(outputs, Artifact(VcfOutput(entry), "vcf", variants))
    /\ cur' = [s |-> 1, i |-> 1]
    /\ pc' = After(entry, pc)
    /\ UNCHANGED <<entry, inp, err, indexed, disk, pool, exp_dir, samples,
                   control_sample, phase, tasks, strand_bias_std_values,
                   repeats, chrom_sizes, variants, h>>

\* sample.clear_temp_file_indices(): drops the sample's temporary file
\* indices and nothing else.
ClearTempFileIndices(s) == [s EXCEPT !.temp_cleared = TRUE]

\* pipeline.py 240-241: one iteration of the loop.
RP_ClearTempFileIndices ==
    /\ entry = "run_pipeline"
    /\ pc = "clear_temp_file_indices"
    /\ samples' = [samples EXCEPT ![cur.s] = ClearTempFileIndices(@)]
    /\ IF cur.s < Len(samples)
       THEN /\ cur' = [cur EXCEPT !.s = cur.s + 1]
            /\ pc' = pc
       ELSE /\ cur' = [s |-> 1, i |-> 1]
            /\ pc' = After(entry, pc)
    /\ UNCHANGED <<entry, inp, err, indexed, disk, pool, exp_dir,
                   control_sample, phase, tasks, strand_bias_std_values,
                   repeats, chrom_sizes, variants, outputs, h>>

\* write_sample_info_file(samples, path): the samples' parameters as held by
\* the Sample records.
SampleInfo(ss) ==
    [name |-> <<"experiment_directory/sample_info", "txt">>,
     kind |-> "sample_info", writer |-> "write_sample_info_file",
     source |-> None,
     data |-> [k \in 1..Len(ss) |->
                 <<ss[k].depth_mean, ss[k].depth_std, ss[k].strand_bias_std>>]]

\* pipeline.py 243-245
RP_WriteSampleInfoFile ==
    /\ entry = "run_pipeline"
    /\ pc = "write_sample_info_file"
    /\ outputs' = WriteArtifact(outputs, SampleInfo(samples))
    /\ h' = [h EXCEPT !.info_writes = @ + 1]
    /\ pc' = After(entry, pc)
    /\ UNCHANGED <<entry, inp, err, indexed, disk, pool, exp_dir, samples,
                   control_sample, cur, phase, tasks, strand_bias_std_values,
                   repeats, chrom_sizes, variants>>

\* ------------------------------------------------------------ call_variants
\* call_variants.py 14-18: manifest and control lookup.
CV_ReadSamples ==
    /\ entry = "call_variants"
    /\ pc = "cv_read_samples"
    /\ samples' = [k \in 1..inp.n |-> NewSample(k)]
    /\ control_sample' = ControlLookup(samples', inp.control)
    /\ pc' = After(entry, pc)
    /\ UNCHANGED <<entry, inp, err, indexed, disk, pool, exp_dir, cur, phase,
                   tasks, strand_bias_std_values, repeats, chrom_sizes,
                   variants, outputs, h>>

\* call_variants.py 20: reference.create_reference_indices(reference_assembly)
CV_CreateReferenceIndices ==
    /\ entry = "call_variants"
    /\ pc = "cv_create_reference_indices"
    /\ indexed' = TRUE
    /\ pc' = After(entry, pc)
    /\ UNCHANGED <<entry, inp, err, disk, pool, exp_dir, samples,
                   control_sample, cur, phase, tasks, strand_bias_std_values,
                   repeats, chrom_sizes, variants, outputs, h>>

\* call_variants.py 21-23 with the cache file present: nothing is built.
CV_RepeatFilePresent ==
    /\ entry = "call_variants"
    /\ pc = "cv_repeat_file"
    /\ Exists(disk, RepeatFile)
    /\ h' = [h EXCEPT !.repeat_needed = TRUE]
    /\ pc' = After(entry, pc)
    /\ UNCHANGED <<entry, inp, err, indexed, disk, pool, exp_dir, samples,
                   control_sample, cur, phase, tasks, strand_bias_std_values,
                   repeats, chrom_sizes, variants, outputs>>

\* call_variants.py 23-24 with the cache file absent: create_repeat_file is
\* not imported by call_variants.py, so the call raises NameError.
CV_RepeatFileAbsent ==
    /\ entry = "call_variants"
    /\ pc = "cv_repeat_file"
    /\ ~Exists(disk, RepeatFile)
    /\ h' = [h EXCEPT !.repeat_needed = TRUE]
    /\ pc' = "aborted"
    /\ err' = "NameError: create_repeat_file"
    /\ UNCHANGED <<entry, inp, indexed, disk, pool, exp_dir, samples,
                   control_sample, cur, phase, tasks, strand_bias_std_values,
                   repeats, chrom_sizes, variants, outputs>>

\* call_variants.py 26-29: chromosome sizes from the given file or from the
\* reference.
CV_ChromSizes ==
    /\ entry = "call_variants"
    /\ pc = "cv_chrom_sizes"
    /\ chrom_sizes' = IF inp.chrom_sizes_file THEN CohortData ELSE ReferenceData
    /\ pc' = After(entry, pc)
    /\ UNCHANGED <<entry, inp, err, indexed, disk, pool, exp_dir, samples,
                   control_sample, cur, phase, tasks, strand_bias_std_values,
                   repeats, variants, outputs, h>>

\* call_variants.py 31-33
CV_VariantList ==
    /\ entry = "call_variants"
    /\ pc = "cv_variant_list"
    /\ variants' = NewVariantList(InputVcf)
    /\ h' = [h EXCEPT !.vl_count = @ + 1]
    /\ pc' = After(entry, pc)
    /\ UNCHANGED <<entry, inp, err, indexed, disk, pool, exp_dir, samples,
                   control_sample, cur, phase, tasks, strand_bias_std_values,
                   repeats, chrom_sizes, outputs>>

\* call_variants.py 35, 38
CV_WriteOutputTable ==
    /\ entry = "call_variants"
    /\ pc = "cv_write_output_table"
    /\ outputs' = WriteArtifact(outputs, Artifact(TextOutput(entry), "table", variants))
    /\ pc' = After(entry, pc)
    /\ UNCHANGED <<entry, inp, err, indexed, disk, pool, exp_dir, samples,
                   control_sample, cur, phase, tasks, strand_bias_std_values,
                   repeats, chrom_sizes, variants, h>>

\* call_variants.py 36, 39
CV_WriteOutputVcf ==
    /\ entry = "call_variants"
    /\ pc = "cv_write_output_vcf"
    /\ outputs' = WriteArtifact(outputs, Artifact(VcfOutput(entry), "vcf", variants))
    /\ pc' = After(entry, pc)
    /\ UNCHANGED <<entry, inp, err, indexed, disk, pool, exp_dir, samples,
                   control_sample, cur, phase, tasks, strand_bias_std_values,
                   repeats, chrom_sizes, variants, h>>

\* ------------------------------------------------------------ specification
Next ==
    \/ RP_CheckReferenceIndices
    \/ RP_CreatePool
    \/ RP_Prepare
    \/ RP_Align
    \/ PoolMapCall
    \/ \E k \in 1..MaxSamples : TaskStart(k)
    \/ \E k \in 1..MaxSamples : TaskStep(k)
    \/ \E k \in 1..MaxSamples : TaskRaise(k)
    \/ PoolMapReturn
    \/ PoolMapRaise
    \/ RP_RunHaplotypeCaller
    \/ RP_MergeStrandBias
    \/ RP_ReadRepeats
    \/ RP_ReadRepeatsMissing
    \/ RP_ReadFits
    \/ RP_VariantList
    \/ RP_WriteOutputTable
    \/ RP_WriteOutputVcf
    \/ RP_ClearTempFileIndices
    \/ RP_WriteSampleInfoFile
    \/ CV_ReadSamples
    \/ CV_CreateReferenceIndices
    \/ CV_RepeatFilePresent
    \/ CV_RepeatFileAbsent
    \/ CV_ChromSizes
    \/ CV_VariantList
    \/ CV_WriteOutputTable
    \/ CV_WriteOutputVcf

Spec == Init /\ [][Next]_vars

\* ------------------------------------------------------------------ claims
\* The VariantList has been constructed: aggregation has begun.
AggregationBegun == h.vl_count > 0

InitialDisk ==
    {<<ReferenceFile, ReferenceData>>}
    \cup (IF inp.repeat_file THEN {<<RepeatFile, CatalogData>>} ELSE {})
    \cup (IF entry = "call_variants" THEN {<<InputVcf, CohortData>>} ELSE {})

\* C1: in run_pipeline the VariantList is constructed only after every
\* sample's analyze_depth_distribution task and every sample's
\* characterize_repeat_indel_rates task has completed, no task is queued or
\* running, and the results are merged into the samples handed to it.
C1_BarrierBeforeAggregation ==
    (entry = "run_pipeline" /\ AggregationBegun) =>
        /\ phase = ""
        /\ \A k \in DOMAIN tasks : tasks[k].status = "done"
        /\ \A k \in 1..Len(samples) :
             /\ <<"analyze_depth_distribution", k>> \in h.finished
             /\ <<"characterize_repeat_indel_rates", k>> \in h.finished
             /\ variants.samples[k].strand_bias_std # None
             /\ variants.samples[k].repeat_indel_fits_dict # None

C1_Witness ==
    /\ entry = "run_pipeline"
    /\ AggregationBegun
    /\ Len(samples) >= 2
    /\ pool >= 2

\* C2: once a worker task of any of the three pool.map phases has raised,
\* run_pipeline never leaves that phase except by aborting: no VariantList is
\* built and no output table, output VCF or sample info file is written.
C2_WorkerFailureAborts ==
    h.failed # "" =>
        /\ pc \in {h.failed, "aborted"}
        /\ (pc = "aborted" => err = "WorkerTaskFailure")
        /\ ~AggregationBegun
        /\ outputs = {}

C2_Witness ==
    /\ pc = "aborted"
    /\ err = "WorkerTaskFailure"
    /\ h.failed = "characterize_repeat_indel_rates"
    /\ \E k \in DOMAIN tasks : tasks[k].status = "done"

\* C3: when the control sample name matches no sample of the manifest, the
\* run does nothing: no file is written, no index is created, no pool task
\* runs, no VariantList is built and no output is written.
C3_MissingControlAborts ==
    (\A k \in 1..inp.n : SampleName(k) # inp.control) =>
        /\ disk = InitialDisk
        /\ indexed = inp.indexed
        /\ phase = ""
        /\ ~AggregationBegun
        /\ outputs = {}

\* C4 as stated: whenever the reference lacks its indices, for either entry
\* point, no pool, directory, file or index is created and nothing is written.
C4_UnindexedAbortsEveryEntry ==
    ~inp.indexed =>
        /\ pool = None
        /\ ~exp_dir
        /\ disk = InitialDisk
        /\ ~indexed
        /\ ~AggregationBegun
        /\ outputs = {}

\* C4 amended: in run_pipeline, when the reference lacks its indices the run
\* stops at the check with the directive to run the indexing step, and no
\* pool, directory, file or index is created and nothing is written;
\* call_variants does not check, it creates the indices itself and goes on.
C4_UnindexedAbortsRunPipeline ==
    /\ (entry = "run_pipeline" /\ ~inp.indexed) =>
        /\ pc \in {"check_reference_indices", "exited"}
        /\ (pc = "exited" =>
              err = "Reference assembly not indexed. Run muver index_reference.")
        /\ pool = None
        /\ ~exp_dir
        /\ disk = InitialDisk
        /\ ~indexed
        /\ samples = <<>>
        /\ ~AggregationBegun
        /\ outputs = {}
    /\ (entry = "call_variants" /\ Past("cv_create_reference_indices")) =>
        indexed

C4_Witness ==
    /\ entry = "run_pipeline"
    /\ ~inp.indexed
    /\ pc = "exited"

\* C5: a run that has reached the point where it needs the repeat catalog
\* with the cache file absent has built and persisted it (and goes on); a
\* cache file that was present is left as it was.
C5_LoadOrBuild ==
    /\ (h.repeat_needed /\ ~inp.repeat_file) =>
        /\ Exists(disk, RepeatFile)
        /\ pc # "aborted"
    /\ inp.repeat_file => <<RepeatFile, CatalogData>> \in disk

\* C6: when aggregation begins in run_pipeline every sample handed to the
\* VariantList has its depth mean and stdev, its strand-bias stdev and its
\* repeat-indel rate table set.
C6_FullyPopulated ==
    (entry = "run_pipeline" /\ AggregationBegun) =>
        \A k \in 1..Len(variants.samples) :
            /\ variants.samples[k].strand_bias_std # None
            /\ variants.samples[k].repeat_indel_fits_dict # None
            /\ variants.samples[k].depth_mean # None
            /\ variants.samples[k].depth_std # None

\* The statistical fields of the samples.
StatFields ==
    [k \in DOMAIN samples |->
        <<samples[k].strand_bias_std, samples[k].repeat_indel_fits_dict,
          samples[k].depth_mean, samples[k].depth_std>>]

\* C7: once the VariantList is constructed, no step of run_pipeline changes
\* a statistical field of any sample.
C7_StatsFrozen ==
    [][(entry = "run_pipeline" /\ AggregationBegun) => StatFields' = StatFields]_vars

C7_Witness ==
    /\ entry = "run_pipeline"
    /\ pc = "done"
    /\ \A k \in 1..Len(samples) :
         /\ samples[k].temp_cleared
         /\ samples[k].strand_bias_std # None

\* Names of the files whose content differs between two disks.
Changed(d1, d2) == {f[1] : f \in (d1 \ d2) \cup (d2 \ d1)}

\* C8: while the parent is blocked in a pool.map, the running tasks' write
\* sets are pairwise disjoint, hold only intermediate files of the task's own
\* sample and none of the shared inputs; and every step taken then changes
\* only files of one running task's own sample, leaving the shared inputs,
\* the in-memory samples, the repeat catalog and the chromosome sizes as
\* they were.
C8_NoSharedWrites ==
    [][(phase # "" /\ pc = phase /\ Running # {}) =>
          LET W == [k \in Running |-> tasks[k].writes]
          IN  /\ \A j \in Running : \A k \in Running \ {j} :
                   W[j] \cap W[k] = {}
              /\ \A k \in Running :
                   /\ W[k] \cap SharedInputs = {}
                   /\ \A f \in W[k] : f[2] = k
              /\ \/ disk' = disk
                 \/ \E k \in Running :
                      \A f \in Changed(disk, disk') : f[2] = k
              /\ samples' = samples
              /\ repeats' = repeats
              /\ chrom_sizes' = chrom_sizes]_vars

C8_Witness ==
    /\ pc = phase
    /\ \E j \in Running : \E k \in Running \ {j} :
         /\ tasks[j].step >= 1
         /\ tasks[k].step >= 1

\* The Sample that a run over the same inputs hands to the VariantList,
\* whatever the pool size and the order of the workers.
ExpectedSample(k) ==
    [sample_name |-> SampleName(k),
     strand_bias_std |-> BiasStd(k),
     repeat_indel_fits_dict |-> FitsTable(k),
     depth_mean |-> None,
     depth_std |-> None,
     temp_cleared |-> FALSE]

C10_OutputsNamedVariants ==
    pc = "done" =>
        /\ h.vl_count = 1
        /\ \E t \in outputs : \E v \in outputs :
             /\ t.kind = "table" /\ EndsWith(t.name, <<"variants", "txt">>)
             /\ v.kind = "vcf" /\ EndsWith(v.name, <<"variants", "vcf">>)
             /\ t.source = variants.id /\ v.source = variants.id
        /\ \A o \in outputs :
             o.kind \in {"table", "vcf"} => o.writer = "VariantList"

\* C10 amended: a completed run has written both output artifacts from the
\* one VariantList, and nothing else wrote them; call_variants names them
\* '<output_header>.variants.txt' and '<output_header>.variants.vcf',
\* run_pipeline names them '<experiment_directory>/output/mutations.txt' and
\* '<experiment_directory>/output/mutations.vcf'.
C10_BothOutputsWritten ==
    /\ pc = "done" =>
        /\ h.vl_count = 1
        /\ \E t \in outputs : \E v \in outputs :
             /\ t.kind = "table" /\ v.kind = "vcf"
             /\ t.source = variants.id /\ v.source = variants.id
             /\ entry = "call_variants" =>
                  /\ EndsWith(t.name, <<"variants", "txt">>)
                  /\ EndsWith(v.name, <<"variants", "vcf">>)
             /\ entry = "run_pipeline" =>
                  /\ t.name = <<"experiment_directory/output/mutations", "txt">>
                  /\ v.name = <<"experiment_directory/output/mutations", "vcf">>
    /\ \A o \in outputs :
         o.kind \in {"table", "vcf"} => o.writer = "VariantList"

C10_Witness ==
    /\ entry = "run_pipeline"
    /\ pc = "done"
    /\ \E t \in outputs : t.kind = "table"
    /\ \E v \in outputs : v.kind = "vcf"

\* Both output artifacts of the run have been written.
BothOutputsWritten ==
    /\ \E t \in outputs : t.kind = "table"
    /\ \E v \in outputs : v.kind = "vcf"

\* C11: a completed run has persisted a sample info file holding every
\* sample's depth mean and stdev and strand-bias stdev as fitted; run_pipeline
\* writes it exactly once, after both output artifacts, and never on a run
\* that stopped early.
C11_SampleInfoPersisted ==
    /\ pc = "done" =>
         \E o \in outputs :
            /\ o.kind = "sample_info"
            /\ Len(o.data) = Len(samples)
            /\ \A k \in 1..Len(samples) :
                 o.data[k] = <<DepthMean(k), DepthStd(k), BiasStd(k)>>
    /\ entry = "run_pipeline" =>
         /\ h.info_writes <= 1
         /\ (pc = "done" => h.info_writes = 1)
         /\ (h.info_writes >= 1 => BothOutputsWritten)
         /\ (pc \in {"aborted", "exited"} => h.info_writes = 0)

\* C12: run_pipeline invokes the haplotype caller exactly once, over the
\* merged BAMs of all samples in sample order, only after every sample's
\* process_sams task has finished; the process_sams phase itself starts only
\* after every FASTQ entry of every sample has been aligned.
C12_HaplotypeCallerOnceAfterProcessSams ==
    entry = "run_pipeline" =>
        /\ h.hc_calls <= 1
        /\ (pc = "done" => h.hc_calls = 1)
        /\ h.hc_calls = 1 =>
             /\ h.hc_bams = [k \in 1..inp.n |-> IFile(k, "merged_bam", 0)]
             /\ \A k \in 1..inp.n :
                  /\ <<"process_sams", k>> \in h.finished
                  /\ Exists(disk, IFile(k, "merged_bam", 0))
        /\ (phase = "process_sams" \/ h.hc_calls = 1
              \/ \E k \in 1..inp.n : <<"process_sams", k>> \in h.finished) =>
             \A s \in 1..inp.n : \A i \in 1..inp.nsams[s] :
                Exists(disk, IFile(s, "_sams", i))

C12_Witness ==
    /\ entry = "run_pipeline"
    /\ h.hc_calls = 1
    /\ Len(h.hc_bams) >= 2
    /\ \E s \in 1..inp.n : inp.nsams[s] >= 2

\* C13: once the merge loop after the depth-analysis phase has run, every
\* samples[i].strand_bias_std is the value computed by the task that was
\* handed sample i's files; the loop assigns every sample exactly once and
\* no sample ever holds a value fitted to another sample's data, whatever
\* the order in which the tasks complete.
C13_StrandBiasBySample ==
    entry = "run_pipeline" =>
        /\ \A a \in DOMAIN h.merged : \A b \in DOMAIN h.merged :
             h.merged[a] = h.merged[b] => a = b
        /\ \A i \in 1..Len(samples) :
             samples[i].strand_bias_std # None =>
                /\ samples[i].strand_bias_std = BiasStd(i)
                /\ \E a \in DOMAIN h.merged : h.merged[a] = i
        /\ Past("merge_strand_bias") =>
             /\ Len(h.merged) = inp.n
             /\ \A i \in 1..inp.n : samples[i].strand_bias_std = BiasStd(i)
             /\ \A k \in DOMAIN tasks :
                  tasks[k].fn = "analyze_depth_distribution" =>
                     samples[tasks[k].args.intermediate_files].strand_bias_std
                        = tasks[k].std

C13_Witness ==
    /\ entry = "run_pipeline"
    /\ pc = "read_repeats"
    /\ Len(h.merged) >= 2
    /\ inp.p >= 2
    /\ \A k \in DOMAIN tasks : tasks[k].fn = "analyze_depth_distribution"

\* The order of the tool calls per SAM index that C14 states.
ProcessSamsOrder ==
    <<"remove_diff_chr_pairs", "mapq_filter", "add_read_groups", "deduplicate",
      "realigner_target_creator", "indel_realigner", "fix_mate_information">>

\* The SAM index the m-th tool call of process_sams works on.
SamIndex(m) == ((m - 1) \div StepsPerSam) + 1

\* The m-th tool call of a process_sams task of total calls, as C14 states it.
ClaimedOp(m, total) ==
    IF m = total THEN "merge_bams"
    ELSE ProcessSamsOrder[((m - 1) % StepsPerSam) + 1]

\* C14: a process_sams task makes, for every SAM index i of its sample, the
\* calls remove_diff_chr_pairs, mapq_filter, add_read_groups, deduplicate,
\* realigner_target_creator, indel_realigner, fix_mate_information in this
\* order; every file a call reads exists when the call is made and is either
\* an input of the task (the reference, the aligned SAM of index i) or was
\* written by an earlier call of the task for the same i; merge_bams is the
\* one last call, made when the fixed-mates BAM of every index exists.
C14_ProcessSamsStepOrder ==
    \A k \in DOMAIN tasks :
       tasks[k].fn = "process_sams" =>
          LET t == tasks[k]
              o == t.args.intermediate_files
              n == inp.nsams[o]
              total == StepsPerSam * n + 1
              nx == t.step + 1
              first == StepsPerSam * (SamIndex(nx) - 1) + 1
          IN  /\ NumSteps("process_sams", t.args) = total
              /\ t.step >= 1 =>
                   Step("process_sams", t.args, t.step).op = ClaimedOp(t.step, total)
              /\ (t.status = "running" /\ nx <= total) =>
                   LET st == Step("process_sams", t.args, nx)
                   IN  /\ st.op = ClaimedOp(nx, total)
                       /\ nx = total =>
                            st.reads = {IFile(o, "_fixed_mates_bams", i) : i \in 1..n}
                       /\ \A r \in st.reads :
                            /\ Exists(disk, r)
                            /\ nx < total =>
                                 \/ r = ReferenceFile
                                 \/ r = IFile(o, "_sams", SamIndex(nx))
                                 \/ \E m \in first..t.step :
                                      r \in Step("process_sams", t.args, m).writes
              /\ Exists(disk, IFile(o, "merged_bam", 0)) =>
                   /\ t.step = total
                   /\ \A i \in 1..n : Exists(disk, IFile(o, "_fixed_mates_bams", i))

C14_Witness ==
    \E k \in DOMAIN tasks :
       /\ tasks[k].fn = "process_sams"
       /\ inp.nsams[tasks[k].args.intermediate_files] >= 2
       /\ tasks[k].status = "done"
       /\ \E j \in DOMAIN tasks : tasks[j].status = "running" /\ tasks[j].step >= 3

\* The calls of analyze_depth_distribution that read the mpileup output.
MpileupConsumers ==
    {"calculate_bias_distribution_mpileup",
     "calculate_depth_distribution_mpileup",
     "filter_regions_by_depth_mpileup"}

\* C15: in an analyze_depth_distribution task the sample's mpileup output
\* has been produced by the task before the bias fit, the depth fit or the
\* depth filter reads it, and the depth filter is computed only after the
\* depth fit, with exactly the mean and stdev that fit returned for the
\* same sample.
C15_MpileupThenFitThenFilter ==
    \A k \in DOMAIN tasks :
       tasks[k].fn = "analyze_depth_distribution" =>
          LET t == tasks[k]
              o == t.args.intermediate_files
              F(kind) == IFile(o, kind, 0)
              total == NumSteps("analyze_depth_distribution", t.args)
              next == Step("analyze_depth_distribution", t.args, t.step + 1)
          IN  /\ (t.status = "running" /\ t.step < total
                    /\ next.op \in MpileupConsumers) =>
                   /\ F("_mpileup_out") \in next.reads
                   /\ Exists(disk, F("_mpileup_out"))
                   /\ \E m \in 1..t.step :
                        Step("analyze_depth_distribution", t.args, m).op
                           = "run_mpileup"
              /\ (t.status = "running" /\ t.step < total
                    /\ next.op = "filter_regions_by_depth_mpileup") =>
                   /\ t.mu # None
                   /\ Exists(disk, F("depth_distribution"))
              /\ \A kind \in {"strand_bias_distribution", "depth_distribution",
                              "filtered_sites"} :
                   Exists(disk, F(kind)) => Exists(disk, F("_mpileup_out"))
              /\ Exists(disk, F("filtered_sites")) =>
                   Exists(disk, F("depth_distribution"))
              /\ t.filter # <<>> =>
                   /\ t.filter = <<t.mu, t.sigma>>
                   /\ t.filter = <<DepthMean(o), DepthStd(o)>>
              /\ t.status = "done" => t.filter # <<>>

C15_Witness ==
    /\ inp.n >= 2
    /\ \E k \in DOMAIN tasks :
         /\ tasks[k].fn = "analyze_depth_distribution"
         /\ tasks[k].filter # <<>>
    /\ \E j \in DOMAIN tasks :
         /\ tasks[j].fn = "analyze_depth_distribution"
         /\ tasks[j].status = "running"
         /\ tasks[j].step \in 1..3

\* Task k of the current pool.map call has been taken by a worker.
Started(k) == tasks[k].status # "queued"

\* C16: the three pool.map phases of run_pipeline never overlap: a task of
\* analyze_depth_distribution has started only if every sample's process_sams
\* task has finished, a task of characterize_repeat_indel_rates has started
\* only if every sample's analyze_depth_distribution task has finished and
\* its result has been merged, and all tasks running at one moment are tasks
\* of the one phase the parent is blocked in.
C16_PhasesDoNotOverlap ==
    /\ \A k \in DOMAIN tasks :
         /\ (tasks[k].fn = "analyze_depth_distribution" /\ Started(k)) =>
              \A j \in 1..inp.n : <<"process_sams", j>> \in h.finished
         /\ (tasks[k].fn = "characterize_repeat_indel_rates" /\ Started(k)) =>
              /\ \A j \in 1..inp.n :
                   /\ <<"process_sams", j>> \in h.finished
                   /\ <<"analyze_depth_distribution", j>> \in h.finished
                   /\ samples[j].strand_bias_std # None
              /\ Len(h.merged) = inp.n
         /\ tasks[k].status = "running" =>
              /\ tasks[k].fn = phase
              /\ pc \in {phase, "aborted"}
    /\ \A j \in DOMAIN tasks : \A k \in DOMAIN tasks :
         (tasks[j].status = "running" /\ tasks[k].status = "running") =>
            tasks[j].fn = tasks[k].fn

C16_Witness ==
    \E j \in DOMAIN tasks : \E k \in DOMAIN tasks :
       /\ j # k
       /\ tasks[j].fn = "characterize_repeat_indel_rates"
       /\ tasks[j].status = "running"
       /\ tasks[k].status = "running"

\* C17: in run_pipeline a sample's temporary file indices are cleared only
\* after both the output table and the output VCF have been written from the
\* VariantList; when one is cleared no pool.map call is in progress and no
\* worker task is queued or running, so nothing can still read the files.
C17_ClearOnlyAfterOutputs ==
    \A k \in 1..Len(samples) :
       samples[k].temp_cleared =>
          /\ entry = "run_pipeline"
          /\ AggregationBegun
          /\ \E t \in outputs : t.kind = "table" /\ t.source = variants.id
          /\ \E v \in outputs : v.kind = "vcf" /\ v.source = variants.id
          /\ Past("write_output_vcf")
          /\ phase = ""
          /\ \A j \in DOMAIN tasks : tasks[j].status = "done"
          /\ \A ph \in Phases : \A j \in 1..inp.n : <<ph, j>> \in h.finished

C17_Witness ==
    /\ entry = "run_pipeline"
    /\ pc = "clear_temp_file_indices"
    /\ Len(samples) >= 2
    /\ samples[1].temp_cleared
    /\ ~samples[2].temp_cleared

====
